---- MODULE Spec2Model ----
(***************************************************************************)
(* Model of angad_sphere_texture.cpp: ray/sphere intersection, texture     *)
(* lookup, the recursive shading function trace and the image driver       *)
(* render.                                                                 *)
(*                                                                         *)
(* Geometry.  Points and directions are Vec3 values <<x, y, z>> with       *)
(* integer components; the unit of length is the shading bias (1e-4 in     *)
(* the source), so bias = 1.  Scenes are placed on the z axis and rays run *)
(* along it: there every product, square root and normalisation of the     *)
(* source is exact in integers (d2 = 0, thc = radius, unit normals).       *)
(*                                                                         *)
(* Colours and coefficients.  float values that are not lengths (colour    *)
(* channels, reflection, transparency, the fresnel factor, u and v) are    *)
(* fixed-point numbers with One standing for 1.0; a product rounds toward  *)
(* minus infinity.                                                         *)
(*                                                                         *)
(* Specifications.  Spec: one call trace(origin, dir, spheres, 0), an      *)
(* explicit stack of invocations, one action per statement group.          *)
(* SpecDepth: the same with any depth argument and two recursion limits.   *)
(* SpecRender: the loops of render.  SpecTex: the index computation of     *)
(* getColor for arbitrary u and v.                                         *)
(***************************************************************************)
EXTENDS Integers, Sequences, FiniteSets, TLC

\* ------------------------------------------------------------------ bounds
MaxSpheres == 3      \* longest scene (spheres.size())
MaxWidth == 4        \* widest image rendered
MaxHeight == 3       \* tallest image rendered
MaxTexDim == 3       \* largest texture width / height sampled
AltMaxDepth == 2     \* the alternative recursion limit compared with MAX_RAY_DEPTH

\* ------------------------------------------------------- program constants
One == 1000                 \* fixed-point 1.0f
INFINITY == 100000000       \* 1e8
MAX_RAY_DEPTH == 5
bias == 1                   \* 1e-4, the unit of length
ior == 1100                 \* 1.1
fresnelMix == 100           \* 0.1, third argument of mix in trace

\* --------------------------------------------------------------- arithmetic
Min(a, b) == IF a < b THEN a ELSE b
Max(a, b) == IF a < b THEN b ELSE a

\* static_cast<int>: division rounding toward zero
TruncDiv(a, b) == IF a >= 0 THEN a \div b ELSE -((-a) \div b)

\* fixed-point product and quotient
FMul(a, b) == (a * b) \div One
FDiv(a, b) == (a * One) \div b

RECURSIVE SqrtSearch(_, _, _)
SqrtSearch(n, lo, hi) ==
    IF lo >= hi THEN lo
    ELSE LET mid == (lo + hi + 1) \div 2
         IN  IF mid * mid <= n THEN SqrtSearch(n, mid, hi)
             ELSE SqrtSearch(n, lo, mid - 1)

\* sqrt on integers (exact on the squares the z-axis geometry produces)
sqrt(n) == SqrtSearch(n, 0, Min(n, 46000))

\* sqrt of a fixed-point number
FSqrt(a) == sqrt(a * One)

\* ------------------------------------------------------------------- Vec3
Vec3(xx, yy, zz) == <<xx, yy, zz>>
Vec3s(xx) == <<xx, xx, xx>>
dot(a, b) == a[1] * b[1] + a[2] * b[2] + a[3] * b[3]
length2(a) == dot(a, a)
VAdd(a, b) == <<a[1] + b[1], a[2] + b[2], a[3] + b[3]>>
VSub(a, b) == <<a[1] - b[1], a[2] - b[2], a[3] - b[3]>>
VNeg(a) == <<-a[1], -a[2], -a[3]>>
VScale(a, f) == <<a[1] * f, a[2] * f, a[3] * f>>

normalize(a) ==
    LET nor2 == length2(a)
    IN  IF nor2 > 0
        THEN LET len == sqrt(nor2)
             IN  <<TruncDiv(a[1], len), TruncDiv(a[2], len), TruncDiv(a[3], len)>>
        ELSE a

\* colour arithmetic (fixed-point channels)
CScale(a, f) == <<FMul(a[1], f), FMul(a[2], f), FMul(a[3], f)>>
CMul(a, b) == <<FMul(a[1], b[1]), FMul(a[2], b[2]), FMul(a[3], b[3])>>

Background == Vec3s(2 * One)
Black == Vec3s(0)

\* ----------------------------------------------------------------- texture
\* a 2 x 2 texture as loadTexture returns it: rows of texels, [y][x]
Texture2x2 ==
    << << <<1000, 0, 0>>, <<0, 1000, 0>> >>,
       << <<0, 0, 1000>>, <<1000, 1000, 0>> >> >>

\* ------------------------------------------------------------------ Sphere
\* the constructor: any float is accepted for every coefficient; textureWidth
\* and textureHeight are set only when a texture is loaded (0 stands for unset)
Sphere(c, r, sc, refl, transp, ec, tex) ==
    [center |-> c, radius |-> r, radius2 |-> r * r,
     surfaceColor |-> sc, emissionColor |-> ec,
     transparency |-> transp, reflection |-> refl,
     texture |-> tex,
     textureWidth |-> IF tex = <<>> THEN 0 ELSE Len(tex[1]),
     textureHeight |-> Len(tex)]

\* mutant of intersect: no early-out for a sphere behind the ray origin
IntersectBehind(s, rayorig, raydir) ==
    LET l == VSub(s.center, rayorig)
        tca == dot(l, raydir)
        d2 == dot(l, l) - tca * tca
    IN  IF d2 > s.radius2 THEN [hit |-> FALSE, t0 |-> INFINITY, t1 |-> INFINITY]
        ELSE LET thc == sqrt(s.radius2 - d2)
             IN  [hit |-> TRUE, t0 |-> tca - thc, t1 |-> tca + thc]

\* lines 98-109.  Without a hit the caller's t0 and t1 are left as they were:
\* INFINITY in the nearest-hit search, unset and never read in the shadow scan.
intersect(s, rayorig, raydir) ==
    LET l == VSub(s.center, rayorig)
        tca == dot(l, raydir)
        d2 == dot(l, l) - tca * tca
    IN  IF tca < 0 THEN [hit |-> FALSE, t0 |-> INFINITY, t1 |-> INFINITY]
        ELSE IF d2 > s.radius2 THEN [hit |-> FALSE, t0 |-> INFINITY, t1 |-> INFINITY]
        ELSE LET thc == sqrt(s.radius2 - d2)
             IN  [hit |-> TRUE, t0 |-> tca - thc, t1 |-> tca + thc]

\* a float that may be NaN: u and v of getColor
Num(f) == [nan |-> FALSE, val |-> f]
NaN == [nan |-> TRUE, val |-> 0]

\* atan2(z, x) / (2 * M_PI), fixed-point; exact on the axes
Atan2Turns(z, x) ==
    IF x = 0 THEN (IF z > 0 THEN One \div 4 ELSE IF z < 0 THEN -(One \div 4) ELSE 0)
    ELSE IF x > 0 THEN 0 ELSE One \div 2

\* acos(c) / M_PI for a fixed-point c: NaN outside [-1, 1], exact at -1, 0
\* and 1, the chord between them elsewhere
AcosHalfTurns(c) ==
    IF c > One \/ c < -One THEN NaN ELSE Num((One - c) \div 2)

\* static_cast<int>(f * n): rounds toward zero; the conversion of NaN is
\* undefined and yields whatever int the build produces
CastProducts(f, n) ==
    IF f.nan THEN {-2147483647, -1, 0, n - 1, n, 2147483647}
    ELSE {TruncDiv(f.val * n, One)}

\* mutant of ClampIndex: the index wraps around instead of clamping
WrapIndex(i, size) == i % size

\* std::min(size - 1, std::max(0, i))
ClampIndex(i, size) == Min(size - 1, Max(0, i))

\* the texel indices <<x, y>> getColor may read for given u, v (lines 117-119)
TexelIndex(u, v, w, h) ==
    {<<ClampIndex(i, w), ClampIndex(k, h)>> :
        i \in CastProducts(u, w), k \in CastProducts(v, h)}

TexU(s, phit) ==
    LET hit == VSub(phit, s.center) IN Num(Atan2Turns(hit[3], hit[1]) + One \div 2)
TexV(s, phit) ==
    LET hit == VSub(phit, s.center) IN AcosHalfTurns(FDiv(hit[2], s.radius))

\* lines 111-120 (on the z axis u and v are numbers and the index is unique)
getColor(s, phit) ==
    IF s.texture = <<>> THEN s.surfaceColor
    ELSE LET xy == CHOOSE p \in TexelIndex(TexU(s, phit), TexV(s, phit),
                                           s.textureWidth, s.textureHeight) : TRUE
         IN  s.texture[xy[2] + 1][xy[1] + 1]

mix(a, b, m) == FMul(b, m) + FMul(a, One - m)

\* ------------------------------------------------------------------ scenes
Origin == Vec3(0, 0, 0)
NoTexture == <<>>

\* the spheres scenes are built from, all centred on the z axis: two mirrors
\* facing each other across the origin, a textured glass sphere and an opaque
\* one whose near surfaces coincide with the first mirror's, a white light, a
\* red-only emitter, a green-only emitter and a mirror of negative transparency
Catalogue ==
    { Sphere(Vec3(0, 0, -6), 2, <<900, 760, 460>>, One, 0, Black, NoTexture),
      Sphere(Vec3(0, 0, 6), 2, <<650, 770, 970>>, One, 0, Black, NoTexture),
      Sphere(Vec3(0, 0, -6), 2, <<1000, 320, 360>>, One, One \div 2, Black, Texture2x2),
      Sphere(Vec3(0, 0, -7), 3, <<200, 200, 200>>, 0, 0, Black, NoTexture),
      Sphere(Vec3(0, 0, 10), 1, Black, 0, 0, Vec3s(3 * One), NoTexture),
      Sphere(Vec3(0, 0, -6), 2, <<900, 900, 900>>, 0, 0, Vec3(3 * One, 0, 0), NoTexture),
      Sphere(Vec3(0, 0, 10), 1, Black, 0, 0, Vec3(0, 3 * One, 0), NoTexture),
      Sphere(Vec3(0, 0, 6), 2, <<900, 900, 900>>, One, -(One \div 2), Black, NoTexture) }

\* the scenes: up to MaxSpheres distinct spheres of the catalogue, in any order
Scenes ==
    {scene \in UNION {[1..n -> Catalogue] : n \in 0..MaxSpheres} :
        \A i, j \in DOMAIN scene : i # j => scene[i] # scene[j]}
Directions == {Vec3(0, 0, -1), Vec3(0, 0, 1)}

\* ------------------------------------------------------------------- state
VARIABLES
    spheres,     \* the scene, std::vector<Sphere>
    maxDepth,    \* the recursion limit trace compares depth with
    call,        \* the arguments of the outermost trace call
    stack,       \* the trace invocations in progress, innermost last
    result,      \* what the outermost call returned, <<>> before it returns
    returned,    \* the latest return of trace: <<[its ray, depth and value]>>
    render,      \* the locals of render: loop counters, pixel pointer, image, file
    tex          \* a getColor lookup on a textured sphere: u, v, size and texel

vars == <<spheres, maxDepth, call, stack, result, returned, render, tex>>

\* ------------------------------------------------------------------- trace
\* line 141: the distance tried for a sphere that reports a hit
Candidate(r) == IF r.t0 < 0 THEN r.t1 ELSE r.t0

\* mutant of Closer: a sphere at the same distance replaces the current choice
CloserOrEqual(t0, tnear) == t0 <= tnear

\* line 142
Closer(t0, tnear) == t0 < tnear

\* lines 136-147, from sphere i on
RECURSIVE NearestFrom(_, _, _, _, _, _)
NearestFrom(scene, rayorig, raydir, i, tnear, sphere) ==
    IF i > Len(scene) THEN [tnear |-> tnear, sphere |-> sphere]
    ELSE LET r == intersect(scene[i], rayorig, raydir)
         IN  IF r.hit /\ Closer(Candidate(r), tnear)
             THEN NearestFrom(scene, rayorig, raydir, i + 1, Candidate(r), i)
             ELSE NearestFrom(scene, rayorig, raydir, i + 1, tnear, sphere)

\* mutant of Nearest: the sphere pointer starts at the first sphere, not NULL
NearestFromFirst(scene, rayorig, raydir) ==
    NearestFrom(scene, rayorig, raydir, 1, INFINITY, IF scene = <<>> THEN 0 ELSE 1)

\* lines 136-147
Nearest(scene, rayorig, raydir) == NearestFrom(scene, rayorig, raydir, 1, INFINITY, 0)

\* mutant of Recurses: the depth test is off by one
RecursesOffByOne(s, depth, limit) ==
    (s.transparency > 0 \/ s.reflection > 0) /\ depth <= limit

\* mutant of Recurses: both coefficients must be positive
RecursesBoth(s, depth, limit) ==
    (s.transparency > 0 /\ s.reflection > 0) /\ depth < limit

\* mutant of Recurses: the material is not looked at
RecursesAlways(s, depth, limit) == depth < limit

\* line 156
Recurses(s, depth, limit) ==
    (s.transparency > 0 \/ s.reflection > 0) /\ depth < limit

\* line 163
TracesRefraction(s) == s.transparency # 0

\* line 177
IsLight(s) == s.emissionColor[1] > 0

\* lines 157-158
Fresnel(raydir, nhit) ==
    LET facingratio == -dot(raydir, nhit) * One
        a == One - facingratio
    IN  mix(FMul(FMul(a, a), a), One, fresnelMix)

\* lines 159-160
ReflDir(raydir, nhit) ==
    normalize(VSub(raydir, VScale(nhit, 2 * dot(raydir, nhit))))

\* lines 164-168 (k is never negative for rays along the axis)
RefrDir(raydir, nhit, inside) ==
    LET eta == IF inside THEN ior ELSE FDiv(One, ior)
        cosi == -dot(nhit, raydir) * One
        k == One - FMul(FMul(eta, eta), One - FMul(cosi, cosi))
    IN  normalize(VAdd(VScale(raydir, eta), VScale(nhit, FMul(eta, cosi) - FSqrt(k))))

\* lines 181-189 for light i, from sphere j on: the transmission and the
\* spheres whose intersect was called
RECURSIVE ShadowFrom(_, _, _, _, _, _)
ShadowFrom(scene, i, j, orig, lightDirection, tested) ==
    IF j > Len(scene) THEN [transmission |-> Vec3s(One), tested |-> tested]
    ELSE IF i # j
         THEN IF intersect(scene[j], orig, lightDirection).hit
              THEN [transmission |-> Vec3s(0), tested |-> Append(tested, j)]
              ELSE ShadowFrom(scene, i, j + 1, orig, lightDirection, Append(tested, j))
         ELSE ShadowFrom(scene, i, j + 1, orig, lightDirection, tested)

\* mutant of Shadow: the light sphere is tested as an occluder of itself
ShadowNoSkip(scene, i, orig, lightDirection) ==
    ShadowFrom(scene, 0, 1, orig, lightDirection, <<>>)

\* lines 178-189
Shadow(scene, i, orig, lightDirection) ==
    ShadowFrom(scene, i, 1, orig, lightDirection, <<>>)

\* line 179-180
LightDirection(s, phit) == normalize(VSub(s.center, phit))

\* line 190: what light i adds to surfaceColor
LightTerm(hitSphere, light, phit, nhit, transmission) ==
    CMul(CScale(CMul(getColor(hitSphere, phit), transmission),
                Max(0, dot(nhit, LightDirection(light, phit))) * One),
         light.emissionColor)

\* lines 171-173
Combine(s, phit, reflection, refraction, fresneleffect) ==
    CMul(VAdd(CScale(reflection, fresneleffect),
              CScale(CScale(refraction, One - fresneleffect), s.transparency)),
         getColor(s, phit))

\* a trace invocation that has just been entered
NewFrame(rayorig, raydir, depth) ==
    [rayorig |-> rayorig, raydir |-> raydir, depth |-> depth, pc |-> "search",
     tnear |-> INFINITY, sphere |-> 0, phit |-> Origin, nhit |-> Origin,
     inside |-> FALSE, surfaceColor |-> Black, fresneleffect |-> 0,
     reflection |-> Black, refraction |-> Black, i |-> 1,
     branch |-> "none", calls |-> <<>>, lights |-> <<>>]

Top == stack[Len(stack)]
SetTop(f) == [stack EXCEPT ![Len(stack)] = f]
Push(f, g) == Append(SetTop(f), g)

\* lines 136-155: nearest-hit search and the surface geometry
Search ==
    /\ stack # <<>> /\ Top.pc = "search"
    /\ LET f == Top
           h == Nearest(spheres, f.rayorig, f.raydir)
       IN  IF h.sphere = 0
           THEN stack' = SetTop([f EXCEPT !.pc = "return_background"])
           ELSE LET phit == VAdd(f.rayorig, VScale(f.raydir, h.tnear))
                    n0 == normalize(VSub(phit, spheres[h.sphere].center))
                    inside == dot(f.raydir, n0) > 0
                IN  stack' = SetTop([f EXCEPT !.pc = "branch", !.tnear = h.tnear,
                                              !.sphere = h.sphere, !.phit = phit,
                                              !.nhit = IF inside THEN VNeg(n0) ELSE n0,
                                              !.inside = inside])
    /\ UNCHANGED <<spheres, maxDepth, call, result, returned, render, tex>>

\* lines 156-161: the recursive branch, up to the reflection call
Reflect ==
    /\ stack # <<>> /\ Top.pc = "branch"
    /\ Recurses(spheres[Top.sphere], Top.depth, maxDepth)
    /\ LET f == Top
       IN  stack' = Push([f EXCEPT !.pc = "reflection", !.branch = "recursive",
                                   !.fresneleffect = Fresnel(f.raydir, f.nhit),
                                   !.calls = Append(@, [kind |-> "reflection",
                                                        depth |-> f.depth + 1])],
                         NewFrame(VAdd(f.phit, VScale(f.nhit, bias)),
                                  ReflDir(f.raydir, f.nhit), f.depth + 1))
    /\ UNCHANGED <<spheres, maxDepth, call, result, returned, render, tex>>

\* lines 162-170: the refraction call, made when transparency is non-zero
Refract ==
    /\ stack # <<>> /\ Top.pc = "refract"
    /\ LET f == Top
       IN  IF TracesRefraction(spheres[f.sphere])
           THEN stack' = Push([f EXCEPT !.pc = "refraction",
                                        !.calls = Append(@, [kind |-> "refraction",
                                                             depth |-> f.depth + 1])],
                              NewFrame(VSub(f.phit, VScale(f.nhit, bias)),
                                       RefrDir(f.raydir, f.nhit, f.inside),
                                       f.depth + 1))
           ELSE stack' = SetTop([f EXCEPT !.pc = "combine"])
    /\ UNCHANGED <<spheres, maxDepth, call, result, returned, render, tex>>

\* lines 171-173
Mix ==
    /\ stack # <<>> /\ Top.pc = "combine"
    /\ LET f == Top
       IN  stack' = SetTop([f EXCEPT !.pc = "return",
                                     !.surfaceColor =
                                         Combine(spheres[f.sphere], f.phit, f.reflection,
                                                 f.refraction, f.fresneleffect)])
    /\ UNCHANGED <<spheres, maxDepth, call, result, returned, render, tex>>

\* lines 175-176: the direct-illumination branch is entered
Direct ==
    /\ stack # <<>> /\ Top.pc = "branch"
    /\ ~Recurses(spheres[Top.sphere], Top.depth, maxDepth)
    /\ stack' = SetTop([Top EXCEPT !.pc = "light", !.branch = "direct", !.i = 1])
    /\ UNCHANGED <<spheres, maxDepth, call, result, returned, render, tex>>

\* lines 176-192: one iteration of the loop over the spheres as lights
Light ==
    /\ stack # <<>> /\ Top.pc = "light"
    /\ LET f == Top
           n == Len(spheres)
           s == spheres[f.sphere]
       IN  IF f.i > n
           THEN stack' = SetTop([f EXCEPT !.pc = "return"])
           ELSE IF IsLight(spheres[f.i])
           THEN LET lightDirection == LightDirection(spheres[f.i], f.phit)
                    sh == Shadow(spheres, f.i, VAdd(f.phit, VScale(f.nhit, bias)),
                                 lightDirection)
                IN  stack' = SetTop([f EXCEPT
                        !.i = @ + 1,
                        !.surfaceColor =
                            VAdd(@, LightTerm(s, spheres[f.i], f.phit, f.nhit,
                                              sh.transmission)),
                        !.lights = Append(@, [i |-> f.i,
                                              transmission |-> sh.transmission,
                                              tested |-> sh.tested])])
           ELSE stack' = SetTop([f EXCEPT !.i = @ + 1])
    /\ UNCHANGED <<spheres, maxDepth, call, result, returned, render, tex>>

\* the caller's frame once the callee returned value
Resume(f, value) ==
    IF f.pc = "reflection"
    THEN [f EXCEPT !.reflection = value, !.pc = "refract"]
    ELSE [f EXCEPT !.refraction = value, !.pc = "combine"]

\* the innermost invocation returns value to its caller
Deliver(value) ==
    /\ returned' = <<[rayorig |-> Top.rayorig, raydir |-> Top.raydir,
                      depth |-> Top.depth, value |-> value]>>
    /\ IF Len(stack) = 1
       THEN stack' = <<>> /\ result' = value
       ELSE /\ stack' = [k \in 1..(Len(stack) - 1) |->
                           IF k = Len(stack) - 1 THEN Resume(stack[k], value)
                           ELSE stack[k]]
            /\ result' = result

\* line 148
ReturnBackground ==
    /\ stack # <<>> /\ Top.pc = "return_background"
    /\ Deliver(Background)
    /\ UNCHANGED <<spheres, maxDepth, call, render, tex>>

\* line 194
ReturnColor ==
    /\ stack # <<>> /\ Top.pc = "return"
    /\ Deliver(VAdd(Top.surfaceColor, spheres[Top.sphere].emissionColor))
    /\ UNCHANGED <<spheres, maxDepth, call, render, tex>>

Done == stack = <<>>

RenderIdle == [pc |-> "idle"]
TexIdle == [pc |-> "idle"]

TraceInit(depths, limits) ==
    /\ spheres \in Scenes
    /\ maxDepth \in limits
    /\ call \in [rayorig : {Origin}, raydir : Directions, depth : depths]
    /\ stack = <<NewFrame(call.rayorig, call.raydir, call.depth)>>
    /\ result = <<>>
    /\ returned = <<>>
    /\ render = RenderIdle
    /\ tex = TexIdle

\* trace(origin, dir, spheres, 0) as render calls it
Init == TraceInit({0}, {MAX_RAY_DEPTH})

Next ==
    \/ Search
    \/ Reflect
    \/ Refract
    \/ Mix
    \/ Direct
    \/ Light
    \/ ReturnBackground
    \/ ReturnColor

Spec == Init /\ [][Next]_vars

\* trace called with any depth argument, under either recursion limit
DepthInit == TraceInit(0..(MAX_RAY_DEPTH + 1), {MAX_RAY_DEPTH, AltMaxDepth})
SpecDepth == DepthInit /\ [][Next]_vars

\* ------------------------------------------------------------------ render
\* line 203 and 206-208: the primary ray of pixel (x, y) before normalize,
\* in units of angle / height: (xx, yy, -1) * height / angle
InvAngle == 3732     \* 1 / tan(M_PI * 0.5 * 30 / 180.)
PrimaryRay(x, y, width, height) ==
    Vec3((2 * x + 1 - width) * One, (height - 2 * y - 1) * One, -(height * InvAngle))

\* trace(Vec3f(0), raydir, spheres, 0) of line 210; the colour it returns for
\* an off-axis ray is left uninterpreted
TraceCall(raydir) == [rayorig |-> Origin, raydir |-> raydir, depth |-> 0]

\* *pixel = value (line 210): a store through the pixel pointer
Store(r, value) ==
    IF r.pixel \in DOMAIN r.image
    THEN [r EXCEPT !.image[r.pixel] = [value |-> value, writes |-> @.writes + 1]]
    ELSE [r EXCEPT !.stray = Append(@, r.pixel)]

\* mutant of InRow: the x loop runs one pixel too far
InRowInclusive(r) == r.x <= r.width

\* line 205: the x loop runs while x < width
InRow(r) == r.x < r.width

\* line 204: the y loop runs while y < height
InImage(r) == r.y < r.height

\* lines 199-203; the image size, 640 x 480 in the source, ranges over the
\* sizes up to MaxWidth x MaxHeight
RenderInit ==
    /\ \E width \in 1..MaxWidth, height \in 1..MaxHeight :
          render = [pc |-> "loop", width |-> width, height |-> height,
                    x |-> 0, y |-> 0, pixel |-> 0,
                    image |-> [k \in 0..(width * height - 1) |->
                                  [value |-> Black, writes |-> 0]],
                    stray |-> <<>>, i |-> 0, ofs |-> <<>>]
    /\ spheres = <<>> /\ maxDepth = MAX_RAY_DEPTH
    /\ call = [rayorig |-> Origin, raydir |-> Origin, depth |-> 0]
    /\ stack = <<>> /\ result = <<>> /\ returned = <<>>
    /\ tex = TexIdle

\* lines 205-211: the body of the x loop, then ++x, ++pixel
RenderPixel ==
    /\ render.pc = "loop" /\ InImage(render) /\ InRow(render)
    /\ LET raydir == PrimaryRay(render.x, render.y, render.width, render.height)
       IN  render' = [Store(render, TraceCall(raydir)) EXCEPT
                         !.x = @ + 1, !.pixel = @ + 1]
    /\ UNCHANGED <<spheres, maxDepth, call, stack, result, returned, tex>>

\* lines 204-205: the x loop ends, ++y, and the next row starts at x = 0
RenderRow ==
    /\ render.pc = "loop" /\ InImage(render) /\ ~InRow(render)
    /\ render' = [render EXCEPT !.y = @ + 1, !.x = 0]
    /\ UNCHANGED <<spheres, maxDepth, call, stack, result, returned, tex>>

\* lines 213-214: the loops are over, the file is opened and the header written
RenderHeader ==
    /\ render.pc = "loop" /\ ~InImage(render)
    /\ render' = [render EXCEPT !.pc = "write", !.i = 0,
                                !.ofs = <<"P6", render.width, render.height, 255>>]
    /\ UNCHANGED <<spheres, maxDepth, call, stack, result, returned, tex>>

\* lines 215-219: image[i] goes to the file
RenderWrite ==
    /\ render.pc = "write" /\ render.i < render.width * render.height
    /\ render' = [render EXCEPT !.i = @ + 1,
                                !.ofs = Append(@, render.image[render.i].value)]
    /\ UNCHANGED <<spheres, maxDepth, call, stack, result, returned, tex>>

\* lines 220-221
RenderClose ==
    /\ render.pc = "write" /\ ~(render.i < render.width * render.height)
    /\ render' = [render EXCEPT !.pc = "done"]
    /\ UNCHANGED <<spheres, maxDepth, call, stack, result, returned, tex>>

RenderNext ==
    \/ RenderPixel
    \/ RenderRow
    \/ RenderHeader
    \/ RenderWrite
    \/ RenderClose

SpecRender == RenderInit /\ [][RenderNext]_vars

\* --------------------------------------------------- getColor on a texture
\* u and v as lines 115-116 may leave them: in [0, 1], outside it, or NaN
TexCoords == {Num((k * One) \div 4) : k \in -4..8} \cup {NaN}

TexInit ==
    /\ \E u \in TexCoords, v \in TexCoords,
          width \in 1..MaxTexDim, height \in 1..MaxTexDim :
          tex = [pc |-> "lookup", u |-> u, v |-> v,
                 textureWidth |-> width, textureHeight |-> height,
                 x |-> 0, y |-> 0]
    /\ spheres = <<>> /\ maxDepth = MAX_RAY_DEPTH
    /\ call = [rayorig |-> Origin, raydir |-> Origin, depth |-> 0]
    /\ stack = <<>> /\ result = <<>> /\ returned = <<>>
    /\ render = RenderIdle

\* lines 117-119: the indices are computed and texture[y][x] is read
TexLookup ==
    /\ tex.pc = "lookup"
    /\ \E p \in TexelIndex(tex.u, tex.v, tex.textureWidth, tex.textureHeight) :
          tex' = [tex EXCEPT !.pc = "read", !.x = p[1], !.y = p[2]]
    /\ UNCHANGED <<spheres, maxDepth, call, stack, result, returned, render>>

TexNext == TexLookup

SpecTex == TexInit /\ [][TexNext]_vars

\* ================================================================== claims
\* A frame changes only while it is the innermost one, or at the moment its
\* callee returns and it becomes the innermost one again: what holds of Top
\* in every reachable state holds of every invocation throughout its life.
Reflective(s) == s.reflection > 0 \/ s.transparency > 0
NoSphereHit(rayorig, raydir) ==
    \A i \in 1..Len(spheres) : ~intersect(spheres[i], rayorig, raydir).hit

\* ---- C1
DepthBounded ==
    \A k \in 1..Len(stack) :
        /\ stack[k].depth = k - 1
        /\ stack[k].depth \in 0..MAX_RAY_DEPTH
        /\ stack[k].depth = MAX_RAY_DEPTH => stack[k].calls = <<>>

\* the most steps an invocation entered at depth d can take until it has returned
RECURSIVE StepBound(_)
StepBound(d) ==
    IF d >= maxDepth THEN Len(spheres) + 4 ELSE 5 + 2 * StepBound(d + 1)

\* the most steps frame f can still take, its pending callees not counted
StepsLeft(f) ==
    CASE f.pc = "search" -> StepBound(f.depth)
      [] f.pc = "branch" -> StepBound(f.depth) - 1
      [] f.pc = "reflection" -> StepBound(f.depth + 1) + 3
      [] f.pc = "refract" -> StepBound(f.depth + 1) + 3
      [] f.pc = "refraction" -> 2
      [] f.pc = "combine" -> 2
      [] f.pc = "light" -> Len(spheres) - f.i + 3
      [] OTHER -> 1

RECURSIVE SumSteps(_, _)
SumSteps(st, k) == IF k = 0 THEN 0 ELSE StepsLeft(st[k]) + SumSteps(st, k - 1)
Variant(st) == SumSteps(st, Len(st))

\* the innermost invocation is at a statement it can execute (it is not
\* waiting for a callee that does not exist)
CanStep ==
    /\ stack # <<>>
    /\ Top.pc \in {"search", "branch", "refract", "combine", "light",
                   "return_background", "return"}
    /\ Top.pc # "search" /\ Top.pc # "return_background" =>
          Top.sphere \in 1..Len(spheres)

\* C1: a call trace(origin, dir, spheres, 0) terminates (until it has
\* returned a step is always possible, and every step lowers a bound on the
\* steps that remain, which is never negative); every invocation it makes,
\* directly or not, has a depth argument in 0..5; an invocation at depth 5
\* makes no recursive call.
C1_BoundedRecursion ==
    /\ []DepthBounded
    /\ [](Done \/ CanStep)
    /\ [](Variant(stack) >= 0)
    /\ [][Variant(stack') < Variant(stack)]_vars

\* C1 witness: six invocations are nested, the innermost (depth 5) has hit a
\* mirror or glass sphere and is about to return without having recursed.
C1_Witness ==
    /\ Len(stack) = MAX_RAY_DEPTH + 1
    /\ Top.pc = "return"
    /\ Reflective(spheres[Top.sphere])
    /\ Top.calls = <<>>

\* ---- C2
\* the ray origin is outside sphere s and the ray points away from it
PointsAway(s, rayorig, raydir) ==
    /\ dot(VSub(s.center, rayorig), raydir) < 0
    /\ length2(VSub(s.center, rayorig)) > s.radius * s.radius

\* C2: when no sphere reports an intersection with the ray (in particular
\* when the origin is outside every sphere and the ray points away from all
\* of them, or the scene is empty), trace returns exactly the background
\* colour (2,2,2), at any depth, having made no recursive call, run no light
\* loop and added no emission colour.
C2_BackgroundOnMiss ==
    /\ \A f \in {stack[k] : k \in {Len(stack)} \ {0}} :
          (/\ f.pc # "search"
           /\ \/ NoSphereHit(f.rayorig, f.raydir)
              \/ \A i \in 1..Len(spheres) : PointsAway(spheres[i], f.rayorig, f.raydir)) =>
              /\ f.pc = "return_background"
              /\ f.calls = <<>> /\ f.lights = <<>>
              /\ f.branch = "none" /\ f.surfaceColor = Vec3s(0)
    /\ \A r \in {returned[k] : k \in 1..Len(returned)} :
          (\/ NoSphereHit(r.rayorig, r.raydir)
           \/ \A i \in 1..Len(spheres) : PointsAway(spheres[i], r.rayorig, r.raydir)) =>
              r.value = <<2 * One, 2 * One, 2 * One>>

\* C2 witness: a reflection ray (depth > 0) that points away from every
\* sphere of a non-empty scene has just returned the background colour.
C2_Witness ==
    /\ returned # <<>> /\ spheres # <<>>
    /\ returned[1].depth > 0
    /\ \A i \in 1..Len(spheres) :
          PointsAway(spheres[i], returned[1].rayorig, returned[1].raydir)
    /\ returned[1].value = <<2 * One, 2 * One, 2 * One>>

\* ---- C3
AllOpaque == \A i \in 1..Len(spheres) : spheres[i].reflection = 0 /\ spheres[i].transparency = 0

\* the light of spheres 1..k that reaches point phit of sphere hit unoccluded,
\* with Lambert's factor: surfaceColor * max(0, N.L) * emission, summed
RECURSIVE DirectLight(_, _, _, _)
DirectLight(k, hit, phit, nhit) ==
    IF k = 0 THEN Vec3s(0)
    ELSE LET rest == DirectLight(k - 1, hit, phit, nhit)
             L == normalize(VSub(spheres[k].center, phit))
             lit == \A j \in 1..Len(spheres) \ {k} :
                        ~intersect(spheres[j], VAdd(phit, VScale(nhit, bias)), L).hit
             term == CMul(CScale(getColor(spheres[hit], phit), Max(0, dot(nhit, L)) * One),
                          spheres[k].emissionColor)
         IN  IF spheres[k].emissionColor[1] > 0 /\ lit THEN VAdd(rest, term) ELSE rest

\* the colour of a ray in a scene of opaque spheres: no depth, no limit in it
OpaqueColor(rayorig, raydir) ==
    LET h == Nearest(spheres, rayorig, raydir)
    IN  IF h.sphere = 0 THEN <<2 * One, 2 * One, 2 * One>>
        ELSE LET phit == VAdd(rayorig, VScale(raydir, h.tnear))
                 n0 == normalize(VSub(phit, spheres[h.sphere].center))
                 nhit == IF dot(raydir, n0) > 0 THEN VNeg(n0) ELSE n0
             IN  VAdd(DirectLight(Len(spheres), h.sphere, phit, nhit),
                      spheres[h.sphere].emissionColor)

\* C3: when every sphere has reflection = 0 and transparency = 0, trace never
\* recurses and the colour it returns for a ray is the same for every depth
\* argument and every recursion limit: it is the direct-illumination colour
\* of the ray, in which neither occurs.
C3_DepthIrrelevant ==
    AllOpaque =>
        /\ Len(stack) <= 1
        /\ \A f \in {stack[k] : k \in 1..Len(stack)} :
              f.calls = <<>> /\ f.branch # "recursive" /\ f.depth = call.depth
        /\ Done => result = OpaqueColor(call.rayorig, call.raydir)

\* C3 witness: an opaque grey sphere lit by an unoccluded white light, traced
\* with a depth argument above the (lowered) recursion limit, has returned
\* surfaceColor * 1 * emission = 0.2 * 3 in every channel.
C3_Witness ==
    /\ Done /\ AllOpaque
    /\ maxDepth # MAX_RAY_DEPTH /\ call.depth > maxDepth
    /\ result = <<600, 600, 600>>

\* ---- C7
HitSet(f) == {i \in 1..Len(spheres) : intersect(spheres[i], f.rayorig, f.raydir).hit}
Dist(f, i) ==
    LET r == intersect(spheres[i], f.rayorig, f.raydir)
    IN  IF r.t0 < 0 THEN r.t1 ELSE r.t0

\* C7: the nearest-hit search selects, among the spheres that report a hit,
\* one with the minimum candidate distance (t0, or t1 when t0 is negative);
\* that distance is never negative; among spheres at the same minimum
\* distance the first in list order is selected.
C7_NearestFirst ==
    \A f \in {stack[k] : k \in {Len(stack)} \ {0}} :
        f.pc # "search" =>
            IF HitSet(f) = {} THEN f.sphere = 0
            ELSE /\ f.sphere \in HitSet(f)
                 /\ f.tnear = Dist(f, f.sphere)
                 /\ f.tnear >= 0
                 /\ \A i \in HitSet(f) :
                       /\ Dist(f, i) >= f.tnear
                       /\ Dist(f, i) = f.tnear => i >= f.sphere

\* C7 witness: two spheres tie for the minimum distance and the earlier one
\* was selected, on a ray that starts inside the selected sphere (t0 < 0).
C7_Witness ==
    \E f \in {stack[k] : k \in {Len(stack)} \ {0}} :
        /\ f.pc = "branch"
        /\ \E i \in HitSet(f) : i > f.sphere /\ Dist(f, i) = f.tnear
        /\ intersect(spheres[f.sphere], f.rayorig, f.raydir).t0 < 0

\* ---- C8
\* C8: every hit takes exactly one shading branch: the recursive one iff
\* (reflection > 0 or transparency > 0) and depth < 5, the direct one
\* otherwise; the recursive branch runs no light loop, the direct branch makes
\* no trace call; a mirror or glass sphere hit at depth 5 is shaded directly.
C8_ExclusiveBranch ==
    \A f \in {stack[k] : k \in {Len(stack)} \ {0}} :
        f.pc \notin {"search", "return_background", "branch"} =>
            LET s == spheres[f.sphere]
                rec == (s.reflection > 0 \/ s.transparency > 0) /\ f.depth < 5
            IN  /\ f.branch = IF rec THEN "recursive" ELSE "direct"
                /\ f.branch = "recursive" =>
                      /\ f.lights = <<>> /\ f.i = 1
                      /\ f.pc \in {"reflection", "refract", "refraction", "combine", "return"}
                      /\ f.calls # <<>>
                /\ f.branch = "direct" =>
                      /\ f.calls = <<>>
                      /\ f.pc \in {"light", "return"}
                      /\ f.reflection = Vec3s(0) /\ f.refraction = Vec3s(0)

\* C8 witness: a mirror or glass sphere hit at depth 5 is in the light loop,
\* which has already shaded it from a light.
C8_Witness ==
    \E f \in {stack[k] : k \in {Len(stack)} \ {0}} :
        /\ f.depth = 5 /\ f.pc = "light" /\ f.branch = "direct"
        /\ Reflective(spheres[f.sphere])
        /\ f.lights # <<>>

\* ---- C9
\* the spheres other than light i that intersect the shadow ray of frame f
Occluders(f, i) ==
    {j \in 1..Len(spheres) \ {i} :
        intersect(spheres[j], VAdd(f.phit, VScale(f.nhit, bias)),
                  normalize(VSub(spheres[i].center, f.phit))).hit}

\* the spheres the occluder scan for light i has to test: every sphere but
\* i, in list order, up to the first occluder
ScanOrder(f, i) ==
    LET stop == IF Occluders(f, i) = {} THEN Len(spheres)
                ELSE CHOOSE j \in Occluders(f, i) : \A k \in Occluders(f, i) : j <= k
    IN  {j \in 1..stop : j # i}

\* C9: in the direct branch the transmission for light i is exactly 0 when a
\* sphere j # i intersects the shadow ray from phit + nhit * bias toward the
\* light, exactly 1 otherwise; the occluder scan stops at the first
\* intersecting sphere and never tests the light itself.
C9_BinaryShadow ==
    \A f \in {stack[k] : k \in {Len(stack)} \ {0}} :
        \A n \in 1..Len(f.lights) :
            LET l == f.lights[n]
            IN  /\ f.branch = "direct"
                /\ l.transmission =
                      IF Occluders(f, l.i) = {} THEN <<One, One, One>> ELSE <<0, 0, 0>>
                /\ {l.tested[k] : k \in 1..Len(l.tested)} = ScanOrder(f, l.i)
                /\ \A k \in 1..(Len(l.tested) - 1) : l.tested[k] < l.tested[k + 1]

\* C9 witness: a light was found occluded by the first of two occluders, the
\* second of which was never tested, and another light was found unoccluded.
C9_Witness ==
    \E f \in {stack[k] : k \in {Len(stack)} \ {0}} :
        \E n \in 1..Len(f.lights) :
            /\ f.lights[n].transmission = <<0, 0, 0>>
            /\ Cardinality(Occluders(f, f.lights[n].i)) = 2
            /\ Len(f.lights[n].tested) = 1

\* ---- C4
\* the slot of pixel (x, y) in row-major order
Slot(x, y) == y * render.width + x

\* C4: render assigns every one of the width * height slots exactly once, in
\* row-major order, with the result of a trace call from origin (0,0,0) at
\* depth 0 for that pixel's ray; no slot is written twice or skipped, no
\* write lands outside 0..width*height-1, and the writer reads the buffer
\* only after every slot has been written.
C4_OncePerPixel ==
    render.pc # "idle" =>
        /\ render.stray = <<>>
        /\ DOMAIN render.image = 0..(render.width * render.height - 1)
        /\ \A k \in DOMAIN render.image :
              /\ render.image[k].writes = IF k < render.pixel THEN 1 ELSE 0
              /\ k < render.pixel =>
                    LET v == render.image[k].value
                    IN  /\ v.rayorig = <<0, 0, 0>> /\ v.depth = 0
                        /\ \E x \in 0..(render.width - 1), y \in 0..(render.height - 1) :
                              /\ k = Slot(x, y)
                              /\ v.raydir = <<(2 * x + 1 - render.width) * One,
                                              (render.height - (2 * y + 1)) * One,
                                              -(render.height * InvAngle)>>
        /\ render.pc = "loop" /\ render.y < render.height =>
              render.pixel = Slot(render.x, render.y)
        /\ render.pc \in {"write", "done"} =>
              /\ render.pixel = render.width * render.height
              /\ Len(render.ofs) = 4 + render.i
              /\ \A k \in 0..(render.i - 1) : render.ofs[5 + k] = render.image[k].value

\* C4 witness: an image of several rows and columns is complete, every slot
\* written once, and the writer has consumed all of it.
C4_Witness ==
    /\ render.pc = "done"
    /\ render.width > 1 /\ render.height > 1
    /\ render.i = render.width * render.height
    /\ \A k \in DOMAIN render.image : render.image[k].writes = 1

\* ---- C5
\* C5: on a texture of width W >= 1 and height H >= 1 getColor reads
\* texture[y][x] with 0 <= x < W and 0 <= y < H whatever u and v are; a
\* coordinate below 0 goes to index 0, one at or above 1 to the last index
\* (clamped, not wrapped), one in [0, 1) to the texel that contains it.
C5_TexelInRange ==
    tex.pc = "read" =>
        /\ tex.x \in 0..(tex.textureWidth - 1)
        /\ tex.y \in 0..(tex.textureHeight - 1)
        /\ ~tex.u.nan =>
              tex.x = IF tex.u.val < 0 THEN 0
                      ELSE IF tex.u.val >= One THEN tex.textureWidth - 1
                      ELSE (tex.u.val * tex.textureWidth) \div One
        /\ ~tex.v.nan =>
              tex.y = IF tex.v.val < 0 THEN 0
                      ELSE IF tex.v.val >= One THEN tex.textureHeight - 1
                      ELSE (tex.v.val * tex.textureHeight) \div One

\* C5 witness: u below 0 and v above 1 on a texture of several rows and
\* columns: the texel read is the first of the last row.
C5_Witness ==
    /\ tex.pc = "read"
    /\ ~tex.u.nan /\ tex.u.val < 0 /\ ~tex.v.nan /\ tex.v.val > One
    /\ tex.textureWidth > 1 /\ tex.textureHeight > 1
    /\ tex.x = 0 /\ tex.y = tex.textureHeight - 1

\* ---- C6
\* C6: in the direct-illumination step every sphere whose emission colour has
\* a positive component, in any channel, is treated as a light, and a sphere
\* is skipped only when no emission component is positive.
C6_AnyChannelIsLight ==
    \A f \in {stack[k] : k \in {Len(stack)} \ {0}} :
        (f.branch = "direct" /\ f.pc = "return") =>
            {f.lights[n].i : n \in 1..Len(f.lights)} =
                {i \in 1..Len(spheres) : \E c \in 1..3 : spheres[i].emissionColor[c] > 0}

\* ---- C10
\* C10: a hit shaded by the recursive branch makes exactly one reflection
\* call, at depth + 1, and a refraction call, at depth + 1, if and only if
\* the sphere's transparency is greater than 0; without it the refraction
\* colour combined is (0,0,0).
C10_RefractionIffTransparent ==
    \A f \in {stack[k] : k \in {Len(stack)} \ {0}} :
        (f.branch = "recursive" /\ f.pc \in {"combine", "return"}) =>
            LET refl == {n \in 1..Len(f.calls) : f.calls[n].kind = "reflection"}
                refr == {n \in 1..Len(f.calls) : f.calls[n].kind = "refraction"}
            IN  /\ Cardinality(refl) = 1
                /\ Cardinality(refr) = IF spheres[f.sphere].transparency > 0 THEN 1 ELSE 0
                /\ \A n \in 1..Len(f.calls) : f.calls[n].depth = f.depth + 1
                /\ ~(spheres[f.sphere].transparency > 0) => f.refraction = <<0, 0, 0>>

====
